---------------------------- MODULE Spec2Model ----------------------------
(***************************************************************************)
(* Model of the reviewer balancing engine of devopshelper:                 *)
(*   pkg/autoreviewer/autoreviewer.go  (AutoReviewer: Run, balanceReview,  *)
(*   shouldFilter, getReviewers, addReviewerComment,                       *)
(*   ContainsReviewBalancerComment, AddReviewers, the filters) and the     *)
(*   manager (NewDefaultManager, Manager.Run).                             *)
(*                                                                         *)
(* An orchestrator instance is a sequential process; every call it makes   *)
(* to the pull-request platform or to a store is one step, and each such   *)
(* call may fail.  The platform state (discussion threads, reviewers of a  *)
(* pull request) and the reviewer store (last-reviewed clock) are shared.  *)
(***************************************************************************)
EXTENDS Integers, Sequences, FiniteSets, TLC

VARIABLES
    repos,              \* RepositoryStore.GetAllRepositories at construction
    AutoReviewers,      \* Manager.AutoReviewers: indices of the enabled repos
    Options,            \* AutoReviewer.Options after NewAutoReviewer
    pullRequests,       \* repo index -> the pull requests GetPullRequests returns
    prData,             \* pull request -> title, target, draft, author, groups
    TeamStore,          \* registered team name -> members
    ReviewerStore,      \* alias -> last-reviewed time, for people with a record
    now,                \* the store's clock
    threads,            \* pull request -> discussion threads (platform)
    prReviewers,        \* pull request -> reviewers added (platform)
    pc,                 \* instance -> position in Manager.Run
    cycle,              \* instance -> Manager.Run calls started
    faults,             \* failures injected so far
    budget,             \* cycles and faults this behaviour may use
    arIdx,              \* instance -> index into AutoReviewers
    prIdx,              \* instance -> index into the repo's pull requests
    loc,                \* instance -> the locals of balanceReview/getReviewers
    result,             \* instance -> outcome of the last Manager.Run
    trace,              \* instance -> calls made by the current Manager.Run
    TestOwners,         \* the lines of an ownership declaration
    ownersFile,         \* the text of the ownership file, line by line
    reviewerGroup       \* the reviewer group parsed from ownersFile

config   == <<repos, AutoReviewers, Options, pullRequests, prData, TeamStore, budget>>
platform == <<threads, prReviewers>>
store    == <<ReviewerStore, now>>
locals   == <<loc>>
control  == <<pc, cycle, arIdx, prIdx, result>>
parser   == <<TestOwners, ownersFile, reviewerGroup>>
vars     == <<config, platform, store, locals, control, faults, trace, parser>>

-----------------------------------------------------------------------------
(* Bounds of the model *)

MaxCycles == 2          \* Manager.Run calls per instance
MaxFaults == 1          \* failing platform, store and hook calls per behaviour
MaxHooks  == 2          \* length of Options.ReviewerTriggers

Instances == {1, 2}
Nil == "<nil>"

-----------------------------------------------------------------------------
(* Strings are sequences of characters, so that strings.Contains,          *)
(* strings.ToLower and strings.EqualFold are computed.                     *)

Upper == <<"A","B","C","D","E","F","G","H","I","J","K","L","M",
           "N","O","P","Q","R","S","T","U","V","W","X","Y","Z">>
LowerL == <<"a","b","c","d","e","f","g","h","i","j","k","l","m",
           "n","o","p","q","r","s","t","u","v","w","x","y","z">>

ToLowerChar(c) ==
    IF \E k \in 1..26 : Upper[k] = c
    THEN LowerL[CHOOSE k \in 1..26 : Upper[k] = c]
    ELSE c

ToLower(s) == [k \in 1..Len(s) |-> ToLowerChar(s[k])]

Contains(s, sub) ==
    \E k \in 0..(Len(s) - Len(sub)) :
        \A j \in 1..Len(sub) : s[k + j] = sub[j]

EqualFold(a, b) == ToLower(a) = ToLower(b)

strWIP       == <<"W","I","P">>
strBotV2     == <<"b","o","t","v","2">>
strMasterRef == <<"r","e","f","s","/","h","e","a","d","s","/","m","a","s","t","e","r">>
strMasterUp  == <<"R","e","f","s","/","H","e","a","d","s","/","M","a","s","t","e","r">>
strDevRef    == <<"r","e","f","s","/","h","e","a","d","s","/","d","e","v">>
strFixTitle  == <<"F","i","x"," ","b","u","g">>
strWIPTitle  == <<"W","I","P",":"," ","f","i","x">>
strWipLower  == <<"w","i","p"," ","f","i","x">>
strBotTitle  == <<"B","o","t","V","2"," ","f","i","x">>
strBotWIP    == <<"b","o","t","v","2"," ","W","I","P">>

defaultBotIdentifier == "b03f5f7f11d50a3a"

-----------------------------------------------------------------------------
(* Filters: true when the pull request is to be left out *)

\* (variant: the title is matched without regard to case)
filterWIPAnyCase(pr) == Contains(ToLower(pr.Title), ToLower(strWIP))

filterWIP(pr) == Contains(pr.Title, strWIP)

filterDraft(pr) == pr.IsDraft # Nil /\ pr.IsDraft = "true"

filterBotV2PRs(pr) == ~Contains(ToLower(pr.Title), strBotV2)

filterMasterBranchOnly(pr) == ~EqualFold(pr.TargetRefName, strMasterRef)

ApplyFilter(f, pr) ==
    CASE f = "filterWIP"              -> filterWIP(pr)
      [] f = "filterMasterBranchOnly" -> filterMasterBranchOnly(pr)
      [] f = "filterDraft"            -> filterDraft(pr)
      [] f = "filterBotV2PRs"         -> filterBotV2PRs(pr)

defaultFilters == <<"filterWIP", "filterMasterBranchOnly", "filterDraft">>

\* Options: a Go slice is its nil flag and its elements; the hooks are
\* opaque functions, so ReviewerTriggers is their number
MkOptions(filtersNil, filters, triggersNil, nTriggers) ==
    [FiltersNil |-> filtersNil, Filters |-> filters,
     TriggersNil |-> triggersNil, ReviewerTriggers |-> nTriggers]

\* NewAutoReviewer: a nil filter list is replaced by the defaults
NewAutoReviewerOptions(options) ==
    IF options.FiltersNil
    THEN [options EXCEPT !.FiltersNil = FALSE, !.Filters = defaultFilters]
    ELSE options

\* (variant: only the first filter of the list is asked)
shouldFilterFirstOnly(options, pr) ==
    /\ ~options.FiltersNil
    /\ Len(options.Filters) > 0
    /\ ApplyFilter(options.Filters[1], pr)

shouldFilter(options, pr) ==
    IF options.FiltersNil THEN FALSE
    ELSE \E k \in 1..Len(options.Filters) : ApplyFilter(options.Filters[k], pr)

-----------------------------------------------------------------------------
(* Pull requests, reviewer groups, comments *)

Group(owners, teams) == [isNil |-> FALSE, Owners |-> owners, Teams |-> teams]
NilGroup == [isNil |-> TRUE, Owners |-> {}, Teams |-> {}]

\* a comment of a discussion thread: its Content is nil, or a text that
\* holds the aliases it greets and the token on its last line
Comment(names, token) == [isNil |-> FALSE, names |-> names, token |-> token]
NilContent == [isNil |-> TRUE, names |-> <<>>, token |-> ""]

\* addReviewerComment's body: the aliases of the required reviewers, in
\* order, and the bot identifier on the last line
ReviewerCommentBody(required, botIdentifier) == Comment(required, botIdentifier)

\* strings.Contains(*comment.Content, a.botIdentifier)
ContentHasToken(content, botIdentifier) ==
    ~content.isNil /\ content.token = botIdentifier

\* (variant: the guard never finds the signature)
ContainsNever(ths, botIdentifier) == FALSE

\* (variant: the guard reads the first thread only)
ContainsInFirstThread(ths, botIdentifier) ==
    /\ Len(ths) >= 1
    /\ \E c \in 1..Len(ths[1]) : ContentHasToken(ths[1][c], botIdentifier)

\* ContainsReviewBalancerComment, once GetThreads has answered (a nil
\* thread list is the empty sequence)
ContainsReviewBalancerComment(ths, botIdentifier) ==
    \E t \in 1..Len(ths) : \E c \in 1..Len(ths[t]) :
        ContentHasToken(ths[t][c], botIdentifier)

-----------------------------------------------------------------------------
(* getReviewers: resolution of the candidate pools *)

RECURSIVE SeqToSet(_)
SeqToSet(s) == IF s = <<>> THEN {} ELSE {Head(s)} \cup SeqToSet(Tail(s))

LiveGroups(groups) == {g \in SeqToSet(groups) : ~g.isNil}

\* every team name and owner entry getReviewers hands to TeamStore.GetTeam
TeamRefs(groups)  == UNION {g.Teams : g \in LiveGroups(groups)}
OwnerRefs(groups) == UNION {g.Owners : g \in LiveGroups(groups)}

\* TeamStore.GetTeam(name) answers without error
GetTeamOk(ts, name, failed) == name \in DOMAIN ts /\ name \notin failed

\* (variant: a team the store does not know is skipped)
TeamLookupSkipsUnknown(groups, ts, failed) ==
    \E t \in TeamRefs(groups) \cap DOMAIN ts : t \in failed

\* the team loop returns an error at the first team GetTeam does not give
TeamLookupError(groups, ts, failed) ==
    \E t \in TeamRefs(groups) : ~GetTeamOk(ts, t, failed)

\* requiredTeamMembers after the group loop
CollectTeamMembers(groups, ts) ==
    UNION {ts[t] : t \in TeamRefs(groups) \cap DOMAIN ts}

\* requiredOwners after the group loop: an owner entry is left out when
\* GetTeam(owner) answers without error
CollectOwners(groups, ts, failed) ==
    {o \in OwnerRefs(groups) : ~GetTeamOk(ts, o, failed)}

\* "Remove PR creator from reviewer list"
RemoveCreator(pool, creator) ==
    IF creator # Nil THEN pool \ {creator} ELSE pool

\* (variant: the owners are not taken out of the team members)
OwnerPrecedenceSkipped(members, owners) == members

\* "Ensure owners aren't in both groups"
OwnerPrecedence(members, owners) == members \ owners

\* ReviewerStore.GetReviewerByADOID: the record of the author, if any
LookupCreator(rs, author) == IF author \in DOMAIN rs THEN author ELSE Nil

-----------------------------------------------------------------------------
(* ReviewerStore.PopLRUReviewer: the candidates with a record whose        *)
(* last-reviewed time is oldest; the one popped is stamped with the        *)
(* current time.                                                           *)

PopEligible(rs, candidates) == candidates \cap DOMAIN rs

LRUChoices(rs, candidates) ==
    {a \in PopEligible(rs, candidates) :
        \A b \in PopEligible(rs, candidates) : rs[a] <= rs[b]}

\* (variant: the pop leaves the last-reviewed time as it was)
StampKeeps(rs, a, t) == rs

Stamp(rs, a, t) == [rs EXCEPT ![a] = t]

-----------------------------------------------------------------------------
(* The orchestrator: Manager.Run, AutoReviewer.Run, balanceReview *)

\* the locals of balanceReview and getReviewers before a pull request
NoLocals ==
    [prCreator |-> Nil, requiredOwners |-> {}, requiredTeamMembers |-> {},
     finalReviewers |-> <<>>, optionalReviewers |-> <<>>, idx |-> 0]

\* a call the current Manager.Run made
Ev(op, pr, who, pool, req, opt, res) ==
    [op |-> op, pr |-> pr, who |-> who, pool |-> pool,
     req |-> req, opt |-> opt, res |-> res]

Log(i, e) == trace' = [trace EXCEPT ![i] = Append(@, e)]

CurRepo(i) == AutoReviewers[arIdx[i]]
CurPR(i)   == pullRequests[CurRepo(i)][prIdx[i]]

\* a platform or store call fails, or a hook returns an error
Fault   == faults < budget.faults /\ faults' = faults + 1
NoFault == faults' = faults

\* Manager.Run returns r to its caller
ManagerReturns(i, r) ==
    /\ pc' = [pc EXCEPT ![i] = "idle"]
    /\ result' = [result EXCEPT ![i] = r]
    /\ loc' = [loc EXCEPT ![i] = NoLocals]
    /\ UNCHANGED <<cycle, arIdx, prIdx>>

\* (variant: Run logs the error of balanceReview and goes on)
BalanceFailsRunGoesOn(i) ==
    /\ pc' = [pc EXCEPT ![i] = "loop"]
    /\ prIdx' = [prIdx EXCEPT ![i] = @ + 1]
    /\ loc' = [loc EXCEPT ![i] = NoLocals]
    /\ UNCHANGED <<cycle, arIdx, result>>

\* balanceReview returns an error: Run wraps and returns it, and Manager.Run
\* returns it
BalanceFails(i) == ManagerReturns(i, "err")

\* balanceReview returns nil, or the pull request is filtered: Run goes on
\* with the next pull request
NextPullRequest(i) ==
    /\ pc' = [pc EXCEPT ![i] = "loop"]
    /\ prIdx' = [prIdx EXCEPT ![i] = @ + 1]
    /\ loc' = [loc EXCEPT ![i] = NoLocals]
    /\ UNCHANGED <<cycle, arIdx, result>>

\* the position moves inside balanceReview
Goto(i, p) ==
    /\ pc' = [pc EXCEPT ![i] = p]
    /\ UNCHANGED <<cycle, arIdx, prIdx, result>>

\* the scheduler calls Manager.Run
StartRun(i) ==
    /\ pc[i] = "idle"
    /\ cycle[i] < budget.cycles
    /\ pc' = [pc EXCEPT ![i] = "manager"]
    /\ cycle' = [cycle EXCEPT ![i] = @ + 1]
    /\ arIdx' = [arIdx EXCEPT ![i] = 1]
    /\ prIdx' = [prIdx EXCEPT ![i] = 0]
    /\ result' = [result EXCEPT ![i] = "running"]
    /\ trace' = [trace EXCEPT ![i] = <<>>]
    /\ UNCHANGED <<parser, config, platform, store, locals, faults>>

\* Manager.Run: no AutoReviewer is left
ManagerDone(i) ==
    /\ pc[i] = "manager"
    /\ arIdx[i] > Len(AutoReviewers)
    /\ ManagerReturns(i, "nil")
    /\ NoFault
    /\ UNCHANGED <<parser, config, platform, store, trace>>

\* Manager.Run: the next AutoReviewer; whether its repository is due for
\* reconciliation depends on the time of day
ManagerNext(i) ==
    /\ pc[i] = "manager"
    /\ arIdx[i] <= Len(AutoReviewers)
    /\ \E due \in BOOLEAN : Goto(i, IF due THEN "reconcile" ELSE "run")
    /\ NoFault
    /\ UNCHANGED <<parser, config, platform, store, locals, trace>>

\* aReviewer.Reconcile
Reconcile(i) ==
    /\ pc[i] = "reconcile"
    /\ \/ /\ NoFault
          /\ Goto(i, "run")
          /\ Log(i, Ev("Reconcile", CurRepo(i), "", {}, <<>>, <<>>, "ok"))
          /\ UNCHANGED locals
       \/ /\ Fault
          /\ ManagerReturns(i, "err")
          /\ Log(i, Ev("Reconcile", CurRepo(i), "", {}, <<>>, <<>>, "err"))
    /\ UNCHANGED <<parser, config, platform, store>>

\* AutoReviewer.Run: GetPullRequests
GetPullRequests(i) ==
    /\ pc[i] = "run"
    /\ \/ /\ NoFault
          /\ pc' = [pc EXCEPT ![i] = "loop"]
          /\ prIdx' = [prIdx EXCEPT ![i] = 1]
          /\ UNCHANGED <<cycle, arIdx, result, locals>>
          /\ Log(i, Ev("GetPullRequests", CurRepo(i), "", {}, <<>>, <<>>, "ok"))
       \/ /\ Fault
          /\ ManagerReturns(i, "err")
          /\ Log(i, Ev("GetPullRequests", CurRepo(i), "", {}, <<>>, <<>>, "err"))
    /\ UNCHANGED <<parser, config, platform, store>>

\* AutoReviewer.Run: the loop is over, Run returns nil to Manager.Run
RunDone(i) ==
    /\ pc[i] = "loop"
    /\ prIdx[i] > Len(pullRequests[CurRepo(i)])
    /\ pc' = [pc EXCEPT ![i] = "manager"]
    /\ arIdx' = [arIdx EXCEPT ![i] = @ + 1]
    /\ prIdx' = [prIdx EXCEPT ![i] = 0]
    /\ NoFault
    /\ UNCHANGED <<cycle, result, parser, config, platform, store, locals, trace>>

\* AutoReviewer.Run: shouldFilter on the next pull request
FilterStep(i) ==
    /\ pc[i] = "loop"
    /\ prIdx[i] <= Len(pullRequests[CurRepo(i)])
    /\ LET filtered == shouldFilter(Options, prData[CurPR(i)])
       IN /\ IF filtered THEN NextPullRequest(i)
             ELSE Goto(i, "check") /\ UNCHANGED locals
          /\ Log(i, Ev("shouldFilter", CurPR(i), "", {}, <<>>, <<>>,
                       IF filtered THEN "true" ELSE "false"))
    /\ NoFault
    /\ UNCHANGED <<parser, config, platform, store>>

\* balanceReview: ContainsReviewBalancerComment; a failing GetThreads panics
CheckComment(i) ==
    /\ pc[i] = "check"
    /\ \/ /\ NoFault
          /\ LET found == ContainsReviewBalancerComment(threads[CurPR(i)],
                                                        defaultBotIdentifier)
             IN /\ IF found THEN NextPullRequest(i)
                   ELSE Goto(i, "groups") /\ UNCHANGED locals
                /\ Log(i, Ev("GetThreads", CurPR(i), "", {}, <<>>, <<>>,
                             IF found THEN "true" ELSE "false"))
       \/ /\ Fault
          /\ pc' = [pc EXCEPT ![i] = "dead"]
          /\ result' = [result EXCEPT ![i] = "panic"]
          /\ UNCHANGED <<cycle, arIdx, prIdx, locals>>
          /\ Log(i, Ev("GetThreads", CurPR(i), "", {}, <<>>, <<>>, "err"))
    /\ UNCHANGED <<parser, config, platform, store>>

\* getReviewers: pr.GetRequiredReviewerGroups
GetGroups(i) ==
    /\ pc[i] = "groups"
    /\ \/ /\ NoFault
          /\ Goto(i, "creator")
          /\ UNCHANGED locals
          /\ Log(i, Ev("GetRequiredReviewerGroups", CurPR(i), "", {}, <<>>, <<>>, "ok"))
       \/ /\ Fault
          /\ BalanceFails(i)
          /\ Log(i, Ev("GetRequiredReviewerGroups", CurPR(i), "", {}, <<>>, <<>>, "err"))
    /\ UNCHANGED <<parser, config, platform, store>>

\* getReviewers: ReviewerStore.GetReviewerByADOID; ErrNotFound is no error
GetCreator(i) ==
    /\ pc[i] = "creator"
    /\ \/ /\ NoFault
          /\ Goto(i, "resolve")
          /\ LET c == LookupCreator(ReviewerStore, prData[CurPR(i)].CreatedBy)
             IN /\ loc' = [loc EXCEPT ![i].prCreator = c]
                /\ Log(i, Ev("GetReviewerByADOID", CurPR(i),
                             prData[CurPR(i)].CreatedBy, {}, <<>>, <<>>,
                             IF c = Nil THEN "NotFound" ELSE "ok"))
       \/ /\ Fault
          /\ BalanceFails(i)
          /\ Log(i, Ev("GetReviewerByADOID", CurPR(i),
                       prData[CurPR(i)].CreatedBy, {}, <<>>, <<>>, "err"))
    /\ UNCHANGED <<parser, config, platform, store>>

\* getReviewers: the group loop, the removal of the creator and the owner
\* precedence.  failed: the names for which TeamStore.GetTeam fails in
\* transport.
Resolve(i) ==
    /\ pc[i] = "resolve"
    /\ LET groups == prData[CurPR(i)].groups
           refs   == TeamRefs(groups) \cup OwnerRefs(groups)
       IN \E failed \in SUBSET refs :
            /\ IF failed = {} THEN NoFault ELSE Fault
            /\ IF TeamLookupError(groups, TeamStore, failed)
               THEN /\ BalanceFails(i)
                    /\ Log(i, Ev("GetTeam", CurPR(i), "", failed, <<>>, <<>>, "err"))
               ELSE LET owners  == RemoveCreator(
                                     CollectOwners(groups, TeamStore, failed),
                                     loc[i].prCreator)
                        members == OwnerPrecedence(
                                     RemoveCreator(
                                       CollectTeamMembers(groups, TeamStore),
                                       loc[i].prCreator),
                                     owners)
                    IN /\ Goto(i, "popOwner")
                       /\ loc' = [loc EXCEPT ![i].requiredOwners = owners,
                                             ![i].requiredTeamMembers = members]
                       /\ Log(i, Ev("GetTeam", CurPR(i), "", failed, <<>>, <<>>, "ok"))
    /\ UNCHANGED <<parser, config, platform, store>>

\* (variant: a slot left unfilled ends the selection)
PopStopsOnNotFound(i, p, q, slot, pool) ==
    /\ pc[i] = p
    /\ \/ /\ NoFault
          /\ PopEligible(ReviewerStore, pool) = {}
          /\ Goto(i, "add")
          /\ loc' = [loc EXCEPT ![i].idx = 1]
          /\ Log(i, Ev("PopLRUReviewer", CurPR(i), slot, pool, <<>>, <<>>, "NotFound"))
          /\ UNCHANGED store
       \/ /\ NoFault
          /\ \E a \in LRUChoices(ReviewerStore, pool) :
               /\ ReviewerStore' = Stamp(ReviewerStore, a, now)
               /\ now' = now + 1
               /\ loc' = [loc EXCEPT ![i].finalReviewers = Append(@, a),
                                     ![i].idx = 1]
               /\ Log(i, Ev("PopLRUReviewer", CurPR(i), slot, pool, <<>>, <<>>, a))
          /\ Goto(i, q)
       \/ /\ Fault
          /\ BalanceFails(i)
          /\ Log(i, Ev("PopLRUReviewer", CurPR(i), slot, pool, <<>>, <<>>, "err"))
          /\ UNCHANGED store
    /\ UNCHANGED <<parser, config, platform>>

\* one ReviewerStore.PopLRUReviewer call of getReviewers over pool, from
\* position p to position q
Pop(i, p, q, slot, pool) ==
    /\ pc[i] = p
    /\ \/ /\ NoFault
          /\ PopEligible(ReviewerStore, pool) = {}
          /\ Goto(i, q)
          /\ loc' = [loc EXCEPT ![i].idx = 1]
          /\ Log(i, Ev("PopLRUReviewer", CurPR(i), slot, pool, <<>>, <<>>, "NotFound"))
          /\ UNCHANGED store
       \/ /\ NoFault
          /\ \E a \in LRUChoices(ReviewerStore, pool) :
               /\ ReviewerStore' = Stamp(ReviewerStore, a, now)
               /\ now' = now + 1
               /\ loc' = [loc EXCEPT ![i].finalReviewers = Append(@, a),
                                     ![i].idx = 1]
               /\ Log(i, Ev("PopLRUReviewer", CurPR(i), slot, pool, <<>>, <<>>, a))
          /\ Goto(i, q)
       \/ /\ Fault
          /\ BalanceFails(i)
          /\ Log(i, Ev("PopLRUReviewer", CurPR(i), slot, pool, <<>>, <<>>, "err"))
          /\ UNCHANGED store
    /\ UNCHANGED <<parser, config, platform>>

\* getReviewers: "Get least recently used reviewer for each group"
PopOwner(i) == Pop(i, "popOwner", "popTeam", "owner", loc[i].requiredOwners)

PopTeam(i) == Pop(i, "popTeam", "add", "team", loc[i].requiredTeamMembers)

\* (variant: only the first required reviewer is walked)
ToAddFirstOnly(i) ==
    [k \in 1..(IF Len(loc[i].finalReviewers) > 0 THEN 1 ELSE 0) |->
        [alias |-> loc[i].finalReviewers[k], required |-> TRUE]]

\* the reviewers AddReviewers walks: the required ones, then the optional
ToAdd(i) ==
    [k \in 1..Len(loc[i].finalReviewers) |->
        [alias |-> loc[i].finalReviewers[k], required |-> TRUE]]
    \o [k \in 1..Len(loc[i].optionalReviewers) |->
        [alias |-> loc[i].optionalReviewers[k], required |-> FALSE]]

\* (variant: the error of CreatePullRequestReviewer is dropped)
AddReviewerIgnoresError(i) ==
    /\ pc[i] = "add"
    /\ loc[i].idx <= Len(ToAdd(i))
    /\ LET r == ToAdd(i)[loc[i].idx]
       IN \/ /\ NoFault
             /\ prReviewers' = [prReviewers EXCEPT ![CurPR(i)] = Append(@, r)]
             /\ Log(i, Ev("CreatePullRequestReviewer", CurPR(i), r.alias, {},
                          <<>>, <<>>, "ok"))
          \/ /\ Fault
             /\ Log(i, Ev("CreatePullRequestReviewer", CurPR(i), r.alias, {},
                          <<>>, <<>>, "err"))
             /\ UNCHANGED prReviewers
    /\ loc' = [loc EXCEPT ![i].idx = @ + 1]
    /\ Goto(i, "add")
    /\ UNCHANGED <<parser, config, threads, store>>

\* AddReviewers: one CreatePullRequestReviewer call
AddReviewer(i) ==
    /\ pc[i] = "add"
    /\ loc[i].idx <= Len(ToAdd(i))
    /\ LET r == ToAdd(i)[loc[i].idx]
       IN \/ /\ NoFault
             /\ prReviewers' = [prReviewers EXCEPT ![CurPR(i)] = Append(@, r)]
             /\ loc' = [loc EXCEPT ![i].idx = @ + 1]
             /\ Goto(i, "add")
             /\ Log(i, Ev("CreatePullRequestReviewer", CurPR(i), r.alias, {},
                          <<>>, <<>>, "ok"))
          \/ /\ Fault
             /\ BalanceFails(i)
             /\ Log(i, Ev("CreatePullRequestReviewer", CurPR(i), r.alias, {},
                          <<>>, <<>>, "err"))
             /\ UNCHANGED prReviewers
    /\ UNCHANGED <<parser, config, threads, store>>

\* (variant: an attempt that selected nobody is an error)
AddReviewersDoneNeedsReviewer(i) ==
    /\ pc[i] = "add"
    /\ loc[i].idx > Len(ToAdd(i))
    /\ IF Len(ToAdd(i)) = 0 THEN BalanceFails(i)
       ELSE Goto(i, "comment") /\ UNCHANGED locals
    /\ NoFault
    /\ UNCHANGED <<parser, config, platform, store, trace>>

\* AddReviewers returns nil
AddReviewersDone(i) ==
    /\ pc[i] = "add"
    /\ loc[i].idx > Len(ToAdd(i))
    /\ Goto(i, "comment")
    /\ NoFault
    /\ UNCHANGED <<parser, config, platform, store, locals, trace>>

\* (variant: the error of CreateThread is dropped and the hooks fire)
AddReviewerCommentIgnoresError(i) ==
    /\ pc[i] = "comment"
    /\ \/ /\ NoFault
          /\ threads' = [threads EXCEPT ![CurPR(i)] =
                 Append(@, <<ReviewerCommentBody(loc[i].finalReviewers,
                                                 defaultBotIdentifier)>>)]
          /\ Log(i, Ev("CreateThread", CurPR(i), "", {}, loc[i].finalReviewers,
                       <<>>, "ok"))
       \/ /\ Fault
          /\ Log(i, Ev("CreateThread", CurPR(i), "", {}, loc[i].finalReviewers,
                       <<>>, "err"))
          /\ UNCHANGED threads
    /\ Goto(i, "hooks")
    /\ loc' = [loc EXCEPT ![i].idx = 1]
    /\ UNCHANGED <<parser, config, prReviewers, store>>

\* addReviewerComment: CreateThread
AddReviewerComment(i) ==
    /\ pc[i] = "comment"
    /\ \/ /\ NoFault
          /\ threads' = [threads EXCEPT ![CurPR(i)] =
                 Append(@, <<ReviewerCommentBody(loc[i].finalReviewers,
                                                 defaultBotIdentifier)>>)]
          /\ Goto(i, "hooks")
          /\ loc' = [loc EXCEPT ![i].idx = 1]
          /\ Log(i, Ev("CreateThread", CurPR(i), "", {}, loc[i].finalReviewers,
                       <<>>, "ok"))
       \/ /\ Fault
          /\ BalanceFails(i)
          /\ Log(i, Ev("CreateThread", CurPR(i), "", {}, loc[i].finalReviewers,
                       <<>>, "err"))
          /\ UNCHANGED threads
    /\ UNCHANGED <<parser, config, prReviewers, store>>

\* (variant: the error of a hook is returned by balanceReview)
FireTriggerReturnsError(i) ==
    /\ pc[i] = "hooks"
    /\ ~Options.TriggersNil
    /\ loc[i].idx <= Options.ReviewerTriggers
    /\ \/ /\ NoFault
          /\ Log(i, Ev("ReviewerTrigger", CurPR(i), "", {loc[i].idx},
                       loc[i].finalReviewers, loc[i].optionalReviewers, "ok"))
          /\ loc' = [loc EXCEPT ![i].idx = @ + 1]
          /\ Goto(i, "hooks")
       \/ /\ Fault
          /\ Log(i, Ev("ReviewerTrigger", CurPR(i), "", {loc[i].idx},
                       loc[i].finalReviewers, loc[i].optionalReviewers, "err"))
          /\ BalanceFails(i)
    /\ UNCHANGED <<parser, config, platform, store>>

\* balanceReview: one hook of Options.ReviewerTriggers; its error is logged
FireTrigger(i) ==
    /\ pc[i] = "hooks"
    /\ ~Options.TriggersNil
    /\ loc[i].idx <= Options.ReviewerTriggers
    /\ \/ /\ NoFault
          /\ Log(i, Ev("ReviewerTrigger", CurPR(i), "", {loc[i].idx},
                       loc[i].finalReviewers, loc[i].optionalReviewers, "ok"))
       \/ /\ Fault
          /\ Log(i, Ev("ReviewerTrigger", CurPR(i), "", {loc[i].idx},
                       loc[i].finalReviewers, loc[i].optionalReviewers, "err"))
    /\ loc' = [loc EXCEPT ![i].idx = @ + 1]
    /\ Goto(i, "hooks")
    /\ UNCHANGED <<parser, config, platform, store>>

\* balanceReview returns nil
BalanceDone(i) ==
    /\ pc[i] = "hooks"
    /\ Options.TriggersNil \/ loc[i].idx > Options.ReviewerTriggers
    /\ NextPullRequest(i)
    /\ NoFault
    /\ UNCHANGED <<parser, config, platform, store, trace>>

-----------------------------------------------------------------------------
(* Construction *)

\* NewDefaultManager: one AutoReviewer per enabled repository, in list order
RECURSIVE EnabledRepos(_, _)
EnabledRepos(rs, k) ==
    IF k > Len(rs) THEN <<>>
    ELSE (IF rs[k].enabled THEN <<k>> ELSE <<>>) \o EnabledRepos(rs, k + 1)

\* (variant: an AutoReviewer for every repository of the list)
NewDefaultManagerAll(rs) == [k \in 1..Len(rs) |-> k]

NewDefaultManager(rs) == EnabledRepos(rs, 1)

PullRequest(title, target, draft, author, groups) ==
    [Title |-> title, TargetRefName |-> target, IsDraft |-> draft,
     CreatedBy |-> author, groups |-> groups]

\* pull requests of the orchestration scenarios
prOpen(author, groups) ==
    PullRequest(strFixTitle, strMasterRef, "false", author, groups)
prWIP(author, groups) ==
    PullRequest(strWIPTitle, strMasterRef, Nil, author, groups)

humanThread == <<NilContent, Comment(<<>>, "lgtm")>>
botThread   == <<Comment(<<"carol">>, defaultBotIdentifier)>>

InitControl ==
    /\ pc = [i \in Instances |-> IF i = 1 THEN "idle" ELSE "off"]
    /\ cycle = [i \in Instances |-> 0]
    /\ arIdx = [i \in Instances |-> 0]
    /\ prIdx = [i \in Instances |-> 0]
    /\ result = [i \in Instances |-> "none"]
    /\ loc = [i \in Instances |-> NoLocals]
    /\ trace = [i \in Instances |-> <<>>]
    /\ faults = 0

\* no ownership file is being parsed
NoOwnersFile ==
    /\ TestOwners = <<>>
    /\ ownersFile = <<>>
    /\ reviewerGroup = NilGroup

\* two repositories, three pull requests, owners alice and bob, team core
Init ==
    /\ InitControl
    /\ NoOwnersFile
    /\ budget = [cycles |-> MaxCycles, faults |-> MaxFaults]
    /\ \E e \in [1..2 -> BOOLEAN] :
         repos = [k \in 1..2 |-> [name |-> k, enabled |-> e[k]]]
    /\ AutoReviewers = NewDefaultManager(repos)
    /\ \E n \in 0..MaxHooks :
         Options = NewAutoReviewerOptions(MkOptions(TRUE, <<>>, n = 0, n))
    /\ pullRequests = <<<<1, 2>>, <<3>>>>
    /\ TeamStore = [t \in {"core"} |-> {"alice", "carol"}]
    /\ ReviewerStore = ("alice" :> 2) @@ ("bob" :> 1) @@ ("carol" :> 0)
    /\ now = 3
    /\ \E second \in {"open", "wip", "done"} :
         /\ prData =
              <<prOpen("bob", <<Group({"alice", "bob"}, {"core"})>>),
                IF second = "wip"
                THEN prWIP("carol", <<Group({"alice"}, {})>>)
                ELSE prOpen("dave", <<NilGroup, Group({"bob", "core", "dave"}, {})>>),
                prOpen("carol", <<Group({"bob"}, {"core"})>>)>>
         /\ threads =
              <<<<humanThread>>,
                IF second = "done" THEN <<humanThread, botThread>> ELSE <<>>,
                <<>>>>
    /\ prReviewers = <<<<>>, <<>>, <<>>>>

\* one pull request, resolved once, over every shape of reviewer groups:
\* owners among alice, bob and the team name core; teams among core and the
\* unregistered ghost; an author with a record (alice, bob) or without (dave)
InitResolve ==
    /\ InitControl
    /\ NoOwnersFile
    /\ budget = [cycles |-> 1, faults |-> MaxFaults]
    /\ repos = <<[name |-> 1, enabled |-> TRUE]>>
    /\ AutoReviewers = NewDefaultManager(repos)
    /\ Options = NewAutoReviewerOptions(MkOptions(TRUE, <<>>, FALSE, 1))
    /\ pullRequests = <<<<1>>>>
    /\ TeamStore \in {[t \in {"core"} |-> {"alice", "carol"}],
                      [t \in {"core"} |-> {"bob", "dave"}]}
    /\ ReviewerStore = ("alice" :> 1) @@ ("bob" :> 1) @@ ("carol" :> 0)
    /\ now = 2
    /\ \E owners \in SUBSET {"alice", "bob", "core"},
          teams \in SUBSET {"core", "ghost"},
          g2 \in {NilGroup, Group({"carol"}, {"core"})},
          author \in {"alice", "bob", "dave"} :
         prData = <<prOpen(author, <<Group(owners, teams), g2>>)>>
    /\ threads = <<<<>>>>
    /\ prReviewers = <<<<>>>>

\* one pull request of every title, target branch and draft flag, under no
\* filter list (the defaults) and under every list of at most two filters
FilterNames == {"filterWIP", "filterMasterBranchOnly", "filterDraft",
                "filterBotV2PRs"}
FilterLists ==
    {<<>>} \cup {<<f>> : f \in FilterNames}
           \cup {<<f, g>> : f \in FilterNames, g \in FilterNames}

InitFilter ==
    /\ InitControl
    /\ NoOwnersFile
    /\ budget = [cycles |-> 1, faults |-> MaxFaults]
    /\ repos = <<[name |-> 1, enabled |-> TRUE]>>
    /\ AutoReviewers = NewDefaultManager(repos)
    /\ \/ Options = NewAutoReviewerOptions(MkOptions(TRUE, <<>>, FALSE, 1))
       \/ \E F \in FilterLists :
            Options = NewAutoReviewerOptions(MkOptions(FALSE, F, FALSE, 1))
    /\ pullRequests = <<<<1>>>>
    /\ TeamStore = [t \in {"core"} |-> {"alice", "carol"}]
    /\ ReviewerStore = ("alice" :> 1) @@ ("bob" :> 0)
    /\ now = 2
    /\ \E title \in {strFixTitle, strWIPTitle, strWipLower, strBotTitle, strBotWIP},
          target \in {strMasterRef, strMasterUp, strDevRef},
          draft \in {Nil, "true", "false"} :
         prData = <<PullRequest(title, target, draft, "bob",
                                <<Group({"alice"}, {})>>)>>
    /\ threads = <<<<>>>>
    /\ prReviewers = <<<<>>>>

\* three repositories with one pull request each: two with the owner pool
\* {alice, bob}, one whose only owner dave has no reviewer record yet
InitManager ==
    /\ InitControl
    /\ NoOwnersFile
    /\ budget = [cycles |-> MaxCycles, faults |-> MaxFaults]
    /\ \E e \in [1..3 -> BOOLEAN] :
         repos = [k \in 1..3 |-> [name |-> k, enabled |-> e[k]]]
    /\ AutoReviewers = NewDefaultManager(repos)
    /\ Options = NewAutoReviewerOptions(MkOptions(TRUE, <<>>, FALSE, 1))
    /\ pullRequests = <<<<1>>, <<2>>, <<3>>>>
    /\ TeamStore = [t \in {"core"} |-> {"alice", "carol"}]
    /\ ReviewerStore = ("alice" :> 0) @@ ("bob" :> 1) @@ ("carol" :> 2)
    /\ now = 3
    /\ prData = <<prOpen("carol", <<Group({"alice", "bob"}, {})>>),
                  prOpen("carol", <<Group({"alice", "bob"}, {})>>),
                  prOpen("carol", <<Group({"dave"}, {})>>)>>
    /\ threads = <<<<>>, <<>>, <<>>>>
    /\ prReviewers = <<<<>>, <<>>, <<>>>>

\* the reviewer store is kept by others: a reviewer who had no record gets
\* one, with no review so far
RegisterReviewer ==
    /\ "dave" \notin DOMAIN ReviewerStore
    /\ ReviewerStore' = ReviewerStore @@ ("dave" :> 0)
    /\ UNCHANGED <<parser, config, platform, now, locals, control, faults, trace>>

-----------------------------------------------------------------------------
(* Ownership files *)

\* the markers that start a team line and a no-notify owner line, each taken
\* as one symbol of the line
PrefixGroup    == <<"<group>">>
PrefixNoNotify == <<"<no-notify>">>
PrefixComment  == <<";">>

HasPrefix(s, prefix) ==
    Len(s) >= Len(prefix) /\ SubSeq(s, 1, Len(prefix)) = prefix

TrimPrefix(s, prefix) == SubSeq(s, Len(prefix) + 1, Len(s))

IsSpace(c) == c \in {" ", "\t"}

RECURSIVE TrimLeft(_)
TrimLeft(s) ==
    IF s # <<>> /\ IsSpace(Head(s)) THEN TrimLeft(Tail(s)) ELSE s

RECURSIVE TrimRight(_)
TrimRight(s) ==
    IF s # <<>> /\ IsSpace(s[Len(s)])
    THEN TrimRight(SubSeq(s, 1, Len(s) - 1)) ELSE s

TrimSpace(s) == TrimRight(TrimLeft(s))

\* generateTestOwnersFile: the template puts every entry on a line of its
\* own, indented, between lines of white space
Indent == <<" ", " ", " ", " ">>

RECURSIVE generateTestOwnersFile(_)
generateTestOwnersFile(owners) ==
    IF owners = <<>> THEN <<<<>>, Indent, <<"\t">>>>
    ELSE <<<<>>, Indent, Indent \o Head(owners)>>
            \o Tail(generateTestOwnersFile(Tail(owners)))

\* (variant: the no-notify marker stays on the alias)
ParseLineKeepsMarker(g, line) ==
    LET l == TrimSpace(line)
    IN IF l = <<>> \/ HasPrefix(l, PrefixComment) THEN g
       ELSE IF HasPrefix(l, PrefixGroup)
            THEN [g EXCEPT !.Teams = @ \cup {TrimPrefix(l, PrefixGroup)}]
            ELSE [g EXCEPT !.Owners = @ \cup {l}]

\* one line of an ownership file: a blank line and a comment line add
\* nothing, a group line adds a team, every other line adds an owner
ParseLine(g, line) ==
    LET l == TrimSpace(line)
    IN IF l = <<>> \/ HasPrefix(l, PrefixComment) THEN g
       ELSE IF HasPrefix(l, PrefixGroup)
            THEN [g EXCEPT !.Teams = @ \cup {TrimPrefix(l, PrefixGroup)}]
            ELSE IF HasPrefix(l, PrefixNoNotify)
                 THEN [g EXCEPT !.Owners = @ \cup {TrimPrefix(l, PrefixNoNotify)}]
                 ELSE [g EXCEPT !.Owners = @ \cup {l}]

RECURSIVE ParseLines(_, _)
ParseLines(g, lines) ==
    IF lines = <<>> THEN g
    ELSE ParseLines(ParseLine(g, Head(lines)), Tail(lines))

newReviewerGroupFromOwnersFile(file) == ParseLines(Group({}, {}), file)

\* the entries an ownership declaration is made of
strCore  == <<"c","o","r","e">>
strInfra == <<"i","n","f","r","a">>
strAlice == <<"a","l","i","c","e">>
strBob   == <<"b","o","b">>
Entries ==
    {PrefixGroup \o strCore, PrefixGroup \o strInfra,
     PrefixNoNotify \o strBob, strBob, strAlice,
     PrefixComment \o strBob, <<>>}

MaxLines == 3

\* every declaration of at most MaxLines entries, written to a file
InitParse ==
    /\ InitControl
    /\ budget = [cycles |-> 0, faults |-> 0]
    /\ repos = <<>>
    /\ AutoReviewers = NewDefaultManager(repos)
    /\ Options = NewAutoReviewerOptions(MkOptions(TRUE, <<>>, TRUE, 0))
    /\ pullRequests = <<>>
    /\ prData = <<>>
    /\ TeamStore = <<>>
    /\ ReviewerStore = <<>>
    /\ now = 0
    /\ threads = <<>>
    /\ prReviewers = <<>>
    /\ TestOwners \in UNION {[1..n -> Entries] : n \in 0..MaxLines}
    /\ ownersFile = generateTestOwnersFile(TestOwners)
    /\ reviewerGroup = NilGroup

\* TestParseOwnerFile: the file is parsed
ParseOwnersFile ==
    /\ reviewerGroup.isNil
    /\ ownersFile # <<>>
    /\ reviewerGroup' = newReviewerGroupFromOwnersFile(ownersFile)
    /\ UNCHANGED <<TestOwners, ownersFile, config, platform, store, locals,
                   control, faults, trace>>

NextParse == ParseOwnersFile
SpecParse == InitParse /\ [][NextParse]_vars

\* two orchestrator instances over the same repository, pull request,
\* platform and stores, each making one run
InitConcurrent ==
    /\ pc = [i \in Instances |-> "idle"]
    /\ cycle = [i \in Instances |-> 0]
    /\ arIdx = [i \in Instances |-> 0]
    /\ prIdx = [i \in Instances |-> 0]
    /\ result = [i \in Instances |-> "none"]
    /\ loc = [i \in Instances |-> NoLocals]
    /\ trace = [i \in Instances |-> <<>>]
    /\ faults = 0
    /\ NoOwnersFile
    /\ budget = [cycles |-> 1, faults |-> MaxFaults]
    /\ repos = <<[name |-> 1, enabled |-> TRUE]>>
    /\ AutoReviewers = NewDefaultManager(repos)
    /\ Options = NewAutoReviewerOptions(MkOptions(TRUE, <<>>, FALSE, 1))
    /\ pullRequests = <<<<1>>>>
    /\ TeamStore = [t \in {"core"} |-> {"alice", "carol"}]
    /\ ReviewerStore = ("alice" :> 0) @@ ("bob" :> 1) @@ ("carol" :> 2)
    /\ now = 3
    /\ prData = <<prOpen("carol", <<Group({"alice", "bob"}, {})>>)>>
    /\ threads = <<<<>>>>
    /\ prReviewers = <<<<>>>>

Next ==
    \E i \in Instances :
        \/ StartRun(i)
        \/ ManagerDone(i)
        \/ ManagerNext(i)
        \/ Reconcile(i)
        \/ GetPullRequests(i)
        \/ RunDone(i)
        \/ FilterStep(i)
        \/ CheckComment(i)
        \/ GetGroups(i)
        \/ GetCreator(i)
        \/ Resolve(i)
        \/ PopOwner(i)
        \/ PopTeam(i)
        \/ AddReviewer(i)
        \/ AddReviewersDone(i)
        \/ AddReviewerComment(i)
        \/ FireTrigger(i)
        \/ BalanceDone(i)

Spec == Init /\ [][Next]_vars

SpecResolve == InitResolve /\ [][Next]_vars
SpecFilter  == InitFilter /\ [][Next]_vars

SpecConcurrent == InitConcurrent /\ [][Next]_vars

NextManager == Next \/ RegisterReviewer
SpecManager == InitManager /\ [][NextManager]_vars

-----------------------------------------------------------------------------
(* Vocabulary of the properties *)

PRs == DOMAIN prData

\* the comments of a discussion that carry the bot signature
SignedCommentsOf(ths) ==
    {tc \in {<<t, c>> : t \in DOMAIN ths, c \in 1..2} :
        /\ tc[2] \in DOMAIN ths[tc[1]]
        /\ ~ths[tc[1]][tc[2]].isNil
        /\ ths[tc[1]][tc[2]].token = defaultBotIdentifier}

SignedComments(p) == SignedCommentsOf(threads[p])

Signed(p) == SignedComments(p) # {}

\* the aliases added as reviewers of pull request p
Assigned(p) == {prReviewers[p][k].alias : k \in DOMAIN prReviewers[p]}

InBalance == {"check", "groups", "creator", "resolve", "popOwner", "popTeam",
              "add", "comment", "hooks"}

\* instance i is inside balanceReview for pull request p
Processing(i, p) == pc[i] \in InBalance /\ CurPR(i) = p

PROps == {"shouldFilter", "GetThreads", "GetRequiredReviewerGroups",
          "GetReviewerByADOID", "GetTeam", "PopLRUReviewer",
          "CreatePullRequestReviewer", "CreateThread", "ReviewerTrigger"}

MutatingOps == {"PopLRUReviewer", "CreatePullRequestReviewer", "CreateThread",
                "ReviewerTrigger"}

\* positions in the trace of instance i of the calls in ops made for p
Calls(i, p, ops) ==
    {k \in DOMAIN trace[i] : trace[i][k].op \in ops /\ trace[i][k].pr = p}

LastCall(i) == trace[i][Len(trace[i])]

\* the reviewer a pop returned, as a list
Popped(e) == IF e.res \in {"NotFound", "err"} THEN <<>> ELSE <<e.res>>

\* the calls of ops for p that the step being taken adds to the trace of i
NewCalls(i, p, ops) ==
    {k \in DOMAIN trace'[i] :
        /\ k > Len(trace[i])
        /\ trace'[i][k].op \in ops
        /\ trace'[i][k].pr = p}

-----------------------------------------------------------------------------
\* C1 -- Idempotency: a pull request whose discussion already holds a
\* comment with the bot signature is left alone by a balancing cycle: no
\* step changes its threads or its reviewers, and the instance that meets
\* it pops no reviewer, adds none, posts nothing and fires no hook for it.
\* (The attempt that has just posted the signature is the one that goes on
\* to fire its hooks.)
C1_Idempotency ==
    [][\A p \in PRs :
         Signed(p) =>
           /\ threads'[p] = threads[p]
           /\ prReviewers'[p] = prReviewers[p]
           /\ \A i \in Instances :
                (Processing(i, p) /\ pc[i] # "hooks") =>
                  /\ ReviewerStore' = ReviewerStore
                  /\ NewCalls(i, p, MutatingOps) = {}
                  /\ pc'[i] \in {"loop", "dead"}]_vars

\* the second cycle meets pull request 1, annotated by the first, and skips it
C1_Witness ==
    /\ cycle[1] = 2
    /\ pc[1] = "loop"
    /\ Len(trace[1]) > 0
    /\ LastCall(1).op = "GetThreads"
    /\ LastCall(1).pr = 1
    /\ LastCall(1).res = "true"
    /\ Cardinality(SignedComments(1)) = 1
    /\ Len(prReviewers[1]) = 2

-----------------------------------------------------------------------------
\* C2 -- Self-review exclusion: whoever the author is, with or without a
\* record in the reviewer store, the author's alias is in neither candidate
\* pool once getReviewers has resolved them.
C2_SelfReviewExclusion ==
    \A i \in Instances :
        pc[i] \in {"popOwner", "popTeam"} =>
            prData[CurPR(i)].CreatedBy \notin
                (loc[i].requiredOwners \cup loc[i].requiredTeamMembers)

-----------------------------------------------------------------------------
\* C3 -- Owner precedence: the owner pool and the team-member pool handed
\* to the two pops of one balancing attempt are disjoint, also when a person
\* is an explicit owner and a member of a referenced team.
C3_OwnerPrecedence ==
    \A i \in Instances :
        /\ pc[i] \in {"popOwner", "popTeam"} =>
               loc[i].requiredOwners \cap loc[i].requiredTeamMembers = {}
        /\ \A p \in PRs :
             \A k, l \in Calls(i, p, {"PopLRUReviewer"}) :
                k # l => trace[i][k].pool \cap trace[i][l].pool = {}

\* alice is an owner entry and a member of core: she is in the owner pool
\* only, and both pools have been handed to a pop
C3_Witness ==
    /\ pc[1] = "add"
    /\ \E a \in OwnerRefs(prData[1].groups) \cap
               CollectTeamMembers(prData[1].groups, TeamStore) :
          /\ a \in loc[1].requiredOwners
          /\ a \notin loc[1].requiredTeamMembers
    /\ loc[1].requiredTeamMembers # {}
    /\ Cardinality(Calls(1, 1, {"PopLRUReviewer"})) = 2

-----------------------------------------------------------------------------
\* C4 -- Selection policy: a getReviewers call that succeeds has made one
\* pop over the owner pool and then one over the team-member pool (also
\* when the first found nobody); the required list is what the two pops
\* returned, owner slot first, so at most two reviewers; the optional list
\* is empty, and both lists reach AddReviewers and every hook unchanged.
C4_SelectionPolicy ==
    \A i \in Instances :
        pc[i] \in {"add", "comment", "hooks"} =>
          LET p    == CurPR(i)
              pops == Calls(i, p, {"PopLRUReviewer"})
          IN /\ Cardinality(pops) = 2
             /\ \E k, l \in pops :
                  /\ k < l
                  /\ trace[i][k].who = "owner"
                  /\ trace[i][k].pool = loc[i].requiredOwners
                  /\ trace[i][l].who = "team"
                  /\ trace[i][l].pool = loc[i].requiredTeamMembers
                  /\ loc[i].finalReviewers =
                        Popped(trace[i][k]) \o Popped(trace[i][l])
             /\ Len(loc[i].finalReviewers) <= 2
             /\ loc[i].optionalReviewers = <<>>
             /\ \A k \in Calls(i, p, {"CreatePullRequestReviewer"}) :
                  /\ trace[i][k].who \in SeqToSet(loc[i].finalReviewers)
                  /\ trace[i][k].res = "ok" =>
                       [alias |-> trace[i][k].who, required |-> TRUE]
                           \in SeqToSet(prReviewers[p])
             /\ \A k \in Calls(i, p, {"ReviewerTrigger"}) :
                  /\ trace[i][k].req = loc[i].finalReviewers
                  /\ trace[i][k].opt = <<>>

\* the owner pop found nobody, the team pop found somebody, who was added
\* and handed to the hook
C4_Witness ==
    /\ pc[1] = "hooks"
    /\ loc[1].idx = 2
    /\ Len(loc[1].finalReviewers) = 1
    /\ \E k, l \in Calls(1, 1, {"PopLRUReviewer"}) :
         /\ k < l
         /\ trace[1][k].res = "NotFound"
         /\ trace[1][l].res = loc[1].finalReviewers[1]
    /\ Assigned(1) = SeqToSet(loc[1].finalReviewers)

-----------------------------------------------------------------------------
\* C5 -- Per-pull-request ordering: in a run the calls made for one pull
\* request come in the order filter check, idempotency check, resolution
\* and pops, reviewer additions, comment, hooks; the comment is posted only
\* once every selected reviewer has been added without error, and a hook
\* fires only once the comment has been posted without error.
Stage(op) ==
    CASE op = "shouldFilter" -> 1
      [] op = "GetThreads" -> 2
      [] op \in {"GetRequiredReviewerGroups", "GetReviewerByADOID", "GetTeam",
                 "PopLRUReviewer"} -> 3
      [] op = "CreatePullRequestReviewer" -> 4
      [] op = "CreateThread" -> 5
      [] op = "ReviewerTrigger" -> 6

C5_Ordering ==
    \A i \in Instances : \A p \in PRs :
        /\ \A k, l \in Calls(i, p, PROps) :
             k < l => /\ Stage(trace[i][k].op) <= Stage(trace[i][l].op)
                      /\ Stage(trace[i][k].op) = Stage(trace[i][l].op) =>
                            Stage(trace[i][k].op) \in {3, 4, 6}
        /\ \A c \in Calls(i, p, {"CreateThread"}) :
             LET adds == {k \in Calls(i, p, {"CreatePullRequestReviewer"}) : k < c}
                 sel  == {trace[i][k].res :
                            k \in {j \in Calls(i, p, {"PopLRUReviewer"}) :
                                      trace[i][j].res \notin {"NotFound", "err"}}}
             IN /\ \A k \in adds : trace[i][k].res = "ok"
                /\ {trace[i][k].who : k \in adds} = sel
                /\ sel \subseteq Assigned(p)
        /\ \A h \in Calls(i, p, {"ReviewerTrigger"}) :
             \E c \in Calls(i, p, {"CreateThread"}) :
                c < h /\ trace[i][c].res = "ok"
        /\ pc[i] = "comment" /\ CurPR(i) = p =>
             SeqToSet(loc[i].finalReviewers) \subseteq Assigned(p)
        /\ pc[i] = "hooks" /\ CurPR(i) = p => Signed(p)

\* a pull request went through every stage: two reviewers added, the
\* comment posted, a hook fired
C5_Witness ==
    \E p \in PRs :
        /\ Cardinality(Calls(1, p, {"CreatePullRequestReviewer"})) = 2
        /\ Calls(1, p, {"CreateThread"}) # {}
        /\ Calls(1, p, {"ReviewerTrigger"}) # {}
        /\ Calls(1, p, {"shouldFilter"}) # {}

-----------------------------------------------------------------------------
\* C6 -- Abort on error: a failure before the reviewers are assigned (the
\* reviewer groups, the author lookup, a team lookup or a pop) is the last
\* call of the run: no reviewer is added to and no comment posted on that
\* pull request, no later pull request or repository is touched, and
\* Manager.Run returns the error.
PreAssignOps == {"GetRequiredReviewerGroups", "GetReviewerByADOID", "GetTeam",
                 "PopLRUReviewer"}

C6_AbortOnError ==
    \A i \in Instances : \A k \in DOMAIN trace[i] :
        (trace[i][k].op \in PreAssignOps /\ trace[i][k].res = "err") =>
            /\ k = Len(trace[i])
            /\ pc[i] = "idle"
            /\ result[i] = "err"
            /\ Calls(i, trace[i][k].pr,
                     {"CreatePullRequestReviewer", "CreateThread",
                      "ReviewerTrigger"}) = {}

\* the team pop of pull request 1 fails after the owner pop succeeded,
\* while pull request 2 and the second repository wait
C6_Witness ==
    /\ result[1] = "err"
    /\ pc[1] = "idle"
    /\ Len(AutoReviewers) = 2
    /\ arIdx[1] = 1
    /\ Len(trace[1]) > 1
    /\ LastCall(1).op = "PopLRUReviewer"
    /\ LastCall(1).who = "team"
    /\ LastCall(1).res = "err"
    /\ LastCall(1).pr = 1
    /\ trace[1][Len(trace[1]) - 1].op = "PopLRUReviewer"
    /\ trace[1][Len(trace[1]) - 1].res = "alice"
    /\ prReviewers[1] = <<>>
    /\ ~Signed(1)

-----------------------------------------------------------------------------
\* C7 -- The idempotency guard fails closed: when the read of the
\* discussion threads fails, nothing is resolved, popped or changed for the
\* pull request, and the failure reaches the caller of Run as an error
\* value.
C7_GuardFailsClosed ==
    \A i \in Instances : \A k \in DOMAIN trace[i] :
        (trace[i][k].op = "GetThreads" /\ trace[i][k].res = "err") =>
            /\ k = Len(trace[i])
            /\ Calls(i, trace[i][k].pr, PreAssignOps \cup MutatingOps) = {}
            /\ result[i] = "err"

-----------------------------------------------------------------------------
\* C8 -- Hook errors are isolated: whichever hooks return an error, the
\* hooks are invoked in order, each once; the reviewers and the comment
\* stay on the pull request; balanceReview returns no error and Run goes on
\* with the next pull request.
NumTriggers == IF Options.TriggersNil THEN 0 ELSE Options.ReviewerTriggers

C8_HookErrorsIsolated ==
    \A i \in Instances : \A p \in PRs :
        LET trig == Calls(i, p, {"ReviewerTrigger"})
            annotated == \E c \in Calls(i, p, {"CreateThread"}) :
                            trace[i][c].res = "ok"
            inHooks == pc[i] = "hooks" /\ CurPR(i) = p
        IN /\ \A k \in trig :
                trace[i][k].pool = {Cardinality({j \in trig : j <= k})}
           /\ Cardinality(trig) <= NumTriggers
           /\ (annotated /\ ~inHooks) => Cardinality(trig) = NumTriggers
           /\ inHooks => Cardinality(trig) = loc[i].idx - 1
           /\ \A k \in trig :
                /\ Signed(p)
                /\ SeqToSet(trace[i][k].req) \subseteq Assigned(p)
                /\ k = Len(trace[i]) =>
                     /\ result[i] \in {"running", "nil"}
                     /\ pc[i] = "loop" =>
                          /\ prIdx[i] > 1
                          /\ pullRequests[CurRepo(i)][prIdx[i] - 1] = p

\* the first hook failed, the second was invoked all the same, and Run has
\* gone on to the next pull request
C8_Witness ==
    \E k, l, m \in DOMAIN trace[1] :
        /\ k < l /\ l < m
        /\ trace[1][k].op = "ReviewerTrigger"
        /\ trace[1][k].pr = 1
        /\ trace[1][k].pool = {1}
        /\ trace[1][k].res = "err"
        /\ trace[1][l].op = "ReviewerTrigger"
        /\ trace[1][l].pr = 1
        /\ trace[1][l].pool = {2}
        /\ trace[1][m].op = "shouldFilter"
        /\ trace[1][m].pr = 2
        /\ Signed(1)
        /\ Assigned(1) = {"alice", "carol"}

-----------------------------------------------------------------------------
\* C9 -- No rollback after assignment: when the comment cannot be posted
\* after AddReviewers succeeded, the selected reviewers stay assigned, the
\* pull request carries no signature, no hook fires and the run returns the
\* error; a later cycle that reads the threads of a pull request without
\* signature goes on to resolve and pop for it again.
C9_AtFailure ==
    \A i \in Instances : \A k \in DOMAIN trace[i] :
        (trace[i][k].op = "CreateThread" /\ trace[i][k].res = "err") =>
            /\ k = Len(trace[i])
            /\ pc[i] = "idle"
            /\ result[i] = "err"
            /\ SeqToSet(trace[i][k].req) \subseteq Assigned(trace[i][k].pr)
            /\ ~Signed(trace[i][k].pr)
            /\ Calls(i, trace[i][k].pr, {"ReviewerTrigger"}) = {}

C9_NoRollback ==
    /\ []C9_AtFailure
    /\ [][\A i \in Instances : \A p \in PRs :
            (pc[i] = "check" /\ CurPR(i) = p /\ ~Signed(p)
               /\ pc'[i] \notin {"check", "dead"}) => pc'[i] = "groups"]_vars
    /\ [][\A p \in PRs : \A k \in DOMAIN prReviewers[p] :
            /\ k \in DOMAIN prReviewers'[p]
            /\ prReviewers'[p][k] = prReviewers[p][k]]_vars

\* the first cycle assigned alice and carol to pull request 1 and failed to
\* post the comment; the second cycle has popped and assigned them again
C9_Witness ==
    /\ cycle[1] = 2
    /\ faults = 1
    /\ pc[1] = "comment"
    /\ CurPR(1) = 1
    /\ Len(prReviewers[1]) = 4
    /\ ~Signed(1)

-----------------------------------------------------------------------------
\* C10 -- At-most-once comment: over the cycles of one instance, whatever
\* calls fail, a pull request carries at most one comment with the bot
\* signature, and once it carries one no step adds a reviewer to it.
C10_AtMostOnceComment ==
    /\ [](\A p \in PRs : Cardinality(SignedComments(p)) <= 1)
    /\ [][\A p \in PRs :
            /\ Signed(p) => prReviewers'[p] = prReviewers[p]
            /\ SignedComments(p) \subseteq SignedCommentsOf(threads'[p])]_vars

\* pull request 1 was annotated after a first attempt that failed, and a
\* later cycle has met it again
C10_Witness ==
    /\ cycle[1] = 2
    /\ faults = 1
    /\ Cardinality(SignedComments(1)) = 1
    /\ Len(prReviewers[1]) = 3
    /\ pc[1] = "loop"
    /\ prIdx[1] = 2

-----------------------------------------------------------------------------
\* C11 -- An unresolvable team is a hard error: when a team named in the
\* Teams of a reviewer group of the pull request is not in the team store,
\* getReviewers returns an error: the team lookup is the last call of the
\* run, no reviewer is popped, and no reviewer or comment is added.
UnknownTeams(p) ==
    {t \in UNION {prData[p].groups[g].Teams :
                    g \in {h \in DOMAIN prData[p].groups :
                             ~prData[p].groups[h].isNil}} :
        t \notin DOMAIN TeamStore}

C11_AfterLookup ==
    \A i \in Instances : \A p \in PRs :
        UnknownTeams(p) # {} =>
            /\ \A k \in Calls(i, p, {"GetTeam"}) :
                 /\ trace[i][k].res = "err"
                 /\ k = Len(trace[i])
                 /\ result[i] = "err"
                 /\ pc[i] = "idle"
            /\ Calls(i, p, MutatingOps) = {}

C11_UnresolvableTeam ==
    /\ []C11_AfterLookup
    /\ [][\A p \in PRs :
            UnknownTeams(p) # {} =>
              /\ threads'[p] = threads[p]
              /\ prReviewers'[p] = prReviewers[p]
              /\ \A i \in Instances :
                   Processing(i, p) => ReviewerStore' = ReviewerStore]_vars

\* the team ghost is not registered: with no call failing in transport, the
\* run has ended with the error of the team lookup
C11_Witness ==
    /\ "ghost" \in UnknownTeams(1)
    /\ faults = 0
    /\ Len(trace[1]) > 0
    /\ LastCall(1).op = "GetTeam"
    /\ LastCall(1).res = "err"
    /\ result[1] = "err"
    /\ prReviewers[1] = <<>>
    /\ ~Signed(1)

-----------------------------------------------------------------------------
\* C12 -- An owner entry that names a team: an owner entry that is a
\* registered team name is not admitted to requiredOwners and is expanded:
\* the members of that team are in requiredTeamMembers (but for the author
\* and the owners, who are taken out afterwards).
C12_OwnerNamingTeam ==
    \A i \in Instances :
        pc[i] \in {"popOwner", "popTeam"} =>
          LET groups == prData[CurPR(i)].groups
              named  == {g \in DOMAIN groups : ~groups[g].isNil}
          IN \A g \in named :
               \A o \in groups[g].Owners \cap DOMAIN TeamStore :
                  /\ o \notin loc[i].requiredOwners
                  /\ (TeamStore[o] \ (loc[i].requiredOwners
                                       \cup {loc[i].prCreator}))
                        \subseteq loc[i].requiredTeamMembers

-----------------------------------------------------------------------------
(* What each filter is to answer on the pull requests of InitFilter, written
   out by hand: the titles that hold "WIP" in capitals, the titles that hold
   "botv2" in any case, the spellings of the master branch reference *)
TitlesWithWIP   == {strWIPTitle, strBotWIP}
TitlesWithBotV2 == {strBotTitle, strBotWIP}
MasterRefs      == {strMasterRef, strMasterUp}

Excludes(f, pr) ==
    CASE f = "filterWIP"              -> pr.Title \in TitlesWithWIP
      [] f = "filterMasterBranchOnly" -> pr.TargetRefName \notin MasterRefs
      [] f = "filterDraft"            -> pr.IsDraft = "true"
      [] f = "filterBotV2PRs"         -> pr.Title \notin TitlesWithBotV2

\* the pull requests on which instance i has taken the filter decision
Decided(i) == {k \in DOMAIN trace[i] : trace[i][k].op = "shouldFilter"}

\* an excluded pull request sees no call at all
LeftOut(i, k) ==
    /\ trace[i][k].res = "true"
    /\ Calls(i, trace[i][k].pr, PROps \ {"shouldFilter"}) = {}

\* C13 -- Default filter pipeline: with no filters supplied, a pull request
\* is excluded from balancing if and only if its title contains "WIP" in
\* capitals, or its target branch is not refs/heads/master in some case, or
\* its draft flag is set; a title with "WIP" excludes it whatever the other
\* fields are.
C13_DefaultFilters ==
    \A i \in Instances :
        (Options.FiltersNil \/ Options.Filters = defaultFilters) =>
            \A k \in Decided(i) :
                LET pr == prData[trace[i][k].pr]
                IN /\ LeftOut(i, k) <=>
                         \/ pr.Title \in TitlesWithWIP
                         \/ pr.TargetRefName \notin MasterRefs
                         \/ pr.IsDraft = "true"
                   /\ trace[i][k].res \in {"true", "false"}
                   /\ trace[i][k].res = "false" =>
                         \/ k < Len(trace[i])
                         \/ pc[i] = "check"

\* a pull request to master that is no draft is excluded for its title alone
C13_Witness ==
    /\ Options.Filters = defaultFilters
    /\ prData[1].Title = strWIPTitle
    /\ prData[1].TargetRefName = strMasterRef
    /\ prData[1].IsDraft = "false"
    /\ result[1] = "nil"
    /\ Decided(1) # {}
    /\ \A k \in Decided(1) : LeftOut(1, k)

\* C14 -- Caller-supplied filter set: with a filter list F supplied in the
\* Options, a pull request is excluded if and only if some filter of F
\* answers true for it, whatever the order of F and whatever the default
\* filters answer; with the empty list no pull request is excluded.
C14_SuppliedFilters ==
    \A i \in Instances :
        ~Options.FiltersNil =>
            \A k \in Decided(i) :
                LET pr == prData[trace[i][k].pr]
                    F  == {Options.Filters[n] : n \in DOMAIN Options.Filters}
                IN /\ LeftOut(i, k) <=> \E f \in F : Excludes(f, pr)
                   /\ trace[i][k].res \in {"true", "false"}
                   /\ F = {} => trace[i][k].res = "false"

\* under the empty list a WIP draft to another branch has been balanced
C14_Witness ==
    /\ Options.Filters = <<>>
    /\ prData[1].Title = strWIPTitle
    /\ prData[1].TargetRefName = strDevRef
    /\ prData[1].IsDraft = "true"
    /\ Signed(1)
    /\ Assigned(1) # {}
    /\ result[1] = "nil"

-----------------------------------------------------------------------------
(* The repositories a run of Manager.Run has worked for *)

\* the repository of a call: Reconcile and GetPullRequests name it, every
\* other call names a pull request of it
RepoOf(e) ==
    IF e.op \in {"Reconcile", "GetPullRequests"} THEN e.pr
    ELSE CHOOSE r \in DOMAIN pullRequests :
            \E k \in DOMAIN pullRequests[r] : pullRequests[r][k] = e.pr

Enabled == {r \in DOMAIN repos : repos[r].enabled}

\* the positions in the trace of instance i where a repository cycle starts
Cycles(i) == {k \in DOMAIN trace[i] : trace[i][k].op = "GetPullRequests"}

CycleRepos(i) == {trace[i][k].pr : k \in Cycles(i)}

\* no call on behalf of a disabled repository; the cycles of a run are for
\* enabled repositories, each at most once, in list order, none passed over
InListOrder(i) ==
    /\ \A k \in DOMAIN trace[i] : RepoOf(trace[i][k]) \in Enabled
    /\ \A k, l \in Cycles(i) : k < l => trace[i][k].pr < trace[i][l].pr
    /\ \A k \in Cycles(i) :
         \A r \in Enabled : r < trace[i][k].pr => r \in CycleRepos(i)
    /\ \A r \in Enabled :
         Cardinality({k \in DOMAIN trace[i] :
                        trace[i][k].op = "Reconcile" /\ trace[i][k].pr = r}) <= 1

\* C15 -- Disabled repositories are skipped entirely: Manager.Run makes no
\* reconcile call, no platform call and no store pop on behalf of a
\* repository that is not enabled, and a run of Manager.Run makes exactly
\* one cycle per enabled repository, in list order.
C15_DisabledSkipped ==
    \A i \in Instances :
        /\ InListOrder(i)
        /\ result[i] \in {"nil", "err", "panic"} => CycleRepos(i) = Enabled

\* C15, amended -- no call is made on behalf of a repository that is not
\* enabled; a run that returns nil has made exactly one cycle per enabled
\* repository, in list order; a run that ends with an error has made the
\* cycles of a leading part of the enabled repositories, each once, and none
\* for the repositories after the failing one.
C15_DisabledSkippedUnlessAborted ==
    \A i \in Instances :
        /\ InListOrder(i)
        /\ result[i] = "nil" => CycleRepos(i) = Enabled
        /\ result[i] \in {"err", "panic"} =>
             /\ LastCall(i).res = "err"
             /\ \A r \in CycleRepos(i) : r <= RepoOf(LastCall(i))

\* the second repository is disabled: the run worked for the first and the
\* third and returned nil
C15_Witness ==
    /\ Enabled = {1, 3}
    /\ result[1] = "nil"
    /\ CycleRepos(1) = {1, 3}
    /\ Calls(1, 1, {"CreateThread"}) # {}
    /\ Calls(1, 2, PROps) = {}

-----------------------------------------------------------------------------
\* the pops of instance i that returned a reviewer
Pops(i) ==
    {k \in DOMAIN trace[i] :
        /\ trace[i][k].op = "PopLRUReviewer"
        /\ trace[i][k].res \notin {"NotFound", "err"}}

\* C16 -- LRU fairness: a pop returns the candidate with the oldest
\* last-reviewed time and stamps it with the current time, so that it is
\* the newest of the candidates afterwards; two pops in a row over the same
\* candidates with two or more records return different reviewers; with
\* alice the oldest and bob the newest of the owner pool {alice, bob}, the
\* first two pull requests balanced get alice and then bob as owner.
C16_PopStep ==
    \A i \in Instances :
        \A k \in {n \in DOMAIN trace'[i] : n > Len(trace[i])} :
            LET e == trace'[i][k]
                known == e.pool \cap DOMAIN ReviewerStore
            IN (e.op = "PopLRUReviewer" /\ e.res \notin {"NotFound", "err"}) =>
                 /\ e.res \in known
                 /\ \A b \in known : ReviewerStore[e.res] <= ReviewerStore[b]
                 /\ \A b \in known \ {e.res} :
                       ReviewerStore'[e.res] > ReviewerStore'[b]

C16_InARow ==
    \A i \in Instances :
        /\ \A k, l \in Pops(i) :
             (/\ k < l
              /\ trace[i][k].pool = trace[i][l].pool
              /\ Cardinality(trace[i][k].pool \cap DOMAIN ReviewerStore) >= 2
              /\ \A m \in Pops(i) : ~(k < m /\ m < l))
                => trace[i][k].res # trace[i][l].res
        /\ cycle[i] = 1 =>
             \A k \in Pops(i) :
                trace[i][k].pool = {"alice", "bob"} =>
                   trace[i][k].res =
                      IF \E m \in Pops(i) : m < k THEN "bob" ELSE "alice"

C16_LRUFairness == []C16_InARow /\ [][C16_PopStep]_vars

\* the first run balanced pull requests 1 and 2: alice, then bob
C16_Witness ==
    /\ cycle[1] = 1
    /\ prReviewers[1] = <<[alias |-> "alice", required |-> TRUE]>>
    /\ prReviewers[2] = <<[alias |-> "bob", required |-> TRUE]>>
    /\ ReviewerStore["alice"] < ReviewerStore["bob"]
    /\ Signed(1)
    /\ Signed(2)

-----------------------------------------------------------------------------
\* the attempts of instance i in which both pops found nobody
BothNotFound(i, p) ==
    /\ \E k \in Calls(i, p, {"PopLRUReviewer"}) :
          trace[i][k].who = "owner" /\ trace[i][k].res = "NotFound"
    /\ \E k \in Calls(i, p, {"PopLRUReviewer"}) :
          trace[i][k].who = "team" /\ trace[i][k].res = "NotFound"

C18_Attempt ==
    \A i \in Instances : \A p \in PRs :
        BothNotFound(i, p) =>
            /\ Calls(i, p, {"CreatePullRequestReviewer"}) = {}
            /\ prReviewers[p] = <<>>
            /\ \A k \in Calls(i, p, {"CreateThread", "ReviewerTrigger"}) :
                  trace[i][k].req = <<>> /\ trace[i][k].opt = <<>>
            /\ (pc[i] = "hooks" /\ CurPR(i) = p) \/ ~Processing(i, p) =>
                  \/ /\ Signed(p)
                     /\ \A tc \in SignedComments(p) :
                           threads[p][tc[1]][tc[2]].names = <<>>
                     /\ ~Processing(i, p) =>
                           Cardinality(Calls(i, p, {"ReviewerTrigger"}))
                              = NumTriggers
                  \/ /\ result[i] = "err"
                     /\ LastCall(i).op = "CreateThread"
                     /\ LastCall(i).res = "err"

\* C18 -- Empty selection still annotates: when both pops of an attempt find
\* nobody, the attempt is no error: no reviewer is added, the signature
\* comment is posted and names nobody, every hook is invoked with an empty
\* required list, and every later cycle skips the pull request, also when
\* a candidate has got a record in the reviewer store since.
C18_EmptySelection ==
    /\ []C18_Attempt
    /\ [][\A p \in PRs :
            (Signed(p) /\ prReviewers[p] = <<>>) =>
               /\ threads'[p] = threads[p]
               /\ prReviewers'[p] = prReviewers[p]
               /\ \A i \in Instances :
                    (Processing(i, p) /\ pc[i] # "hooks") =>
                       /\ NewCalls(i, p, MutatingOps) = {}
                       /\ pc'[i] \in {pc[i], "loop", "dead"}]_vars

\* pull request 3 was annotated with nobody named; dave has a record now,
\* and the second cycle has skipped the pull request
C18_Witness ==
    /\ cycle[1] = 2
    /\ "dave" \in DOMAIN ReviewerStore
    /\ Signed(3)
    /\ prReviewers[3] = <<>>
    /\ Len(trace[1]) > 0
    /\ LastCall(1).op = "GetThreads"
    /\ LastCall(1).pr = 3
    /\ LastCall(1).res = "true"
    /\ pc[1] = "loop"

-----------------------------------------------------------------------------
\* the reviewers the pops of instance i returned for pull request p, whose
\* last-reviewed time the pop advanced
PoppedFor(i, p) ==
    {trace[i][k].res :
        k \in {j \in Calls(i, p, {"PopLRUReviewer"}) :
                  trace[i][j].res \notin {"NotFound", "err"}}}

RequiredOf(p) ==
    {prReviewers[p][k].alias :
        k \in {j \in DOMAIN prReviewers[p] : prReviewers[p][j].required}}

\* C19 -- Pop implies assignment: every reviewer whose last-reviewed time a
\* pop of an attempt advanced is a required reviewer of the pull request
\* when the attempt ends, also when the attempt ends with an error (the
\* team pop fails after the owner pop succeeded, or AddReviewers fails).
C19_PopImpliesAssignment ==
    \A i \in Instances : \A p \in PRs :
        ~Processing(i, p) => PoppedFor(i, p) \subseteq RequiredOf(p)

C19_Ended ==
    \A i \in Instances : \A p \in PRs :
        /\ (Calls(i, p, {"CreateThread"}) # {}
              \/ (Processing(i, p) /\ pc[i] \in {"comment", "hooks"}))
             => PoppedFor(i, p) \subseteq RequiredOf(p)
        /\ (~Processing(i, p) /\ ~(PoppedFor(i, p) \subseteq RequiredOf(p)))
             => /\ result[i] = "err"
                /\ LastCall(i).pr = p
                /\ LastCall(i).res = "err"
                /\ LastCall(i).op \in {"PopLRUReviewer",
                                       "CreatePullRequestReviewer"}
                /\ \A a \in PoppedFor(i, p) : ReviewerStore[a] >= 3

\* C19, amended -- every reviewer popped by an attempt that goes on to the
\* comment has been added as a required reviewer of the pull request; an
\* attempt that ends with a popped reviewer not added has ended with the
\* error of a pop or of CreatePullRequestReviewer, and the last-reviewed
\* time the pop advanced is never set back.
C19_PopImpliesAssignmentUnlessAborted ==
    /\ []C19_Ended
    /\ [][\A a \in DOMAIN ReviewerStore :
             ReviewerStore'[a] >= ReviewerStore[a]]_vars

\* both slots were filled, both reviewers added, and the attempt returned
C19_Witness ==
    /\ pc[1] = "loop"
    /\ prIdx[1] = 2
    /\ Cardinality(PoppedFor(1, 1)) = 2
    /\ PoppedFor(1, 1) = RequiredOf(1)
    /\ \A a \in PoppedFor(1, 1) : ReviewerStore[a] >= 3
    /\ Signed(1)

-----------------------------------------------------------------------------
(* What the entries of a declaration stand for, written out by hand *)
TeamLines  == {PrefixGroup \o strCore, PrefixGroup \o strInfra}
OwnerLines == {PrefixNoNotify \o strBob, strBob, strAlice}

TeamNamed(e) == IF e = PrefixGroup \o strCore THEN strCore ELSE strInfra
OwnerNamed(e) == IF e = strAlice THEN strAlice ELSE strBob

Declared == {TestOwners[k] : k \in DOMAIN TestOwners}

\* the group holds the names of the team lines and of the owner lines, and
\* so nothing that comes from a comment line or a blank line
ParsedAsDeclared ==
    /\ reviewerGroup.Teams = {TeamNamed(e) : e \in Declared \cap TeamLines}
    /\ reviewerGroup.Owners = {OwnerNamed(e) : e \in Declared \cap OwnerLines}
    /\ \A x \in reviewerGroup.Teams \cup reviewerGroup.Owners :
         /\ x # <<>>
         /\ ~IsSpace(Head(x))
         /\ ~HasPrefix(x, PrefixComment)
         /\ ~HasPrefix(x, PrefixGroup)
         /\ ~HasPrefix(x, PrefixNoNotify)

\* C17 -- Ownership-file parsing: newReviewerGroupFromOwnersFile admits no
\* comment line and no blank line; a group line adds its remainder to Teams,
\* a no-notify line adds its remainder to Owners, every other line adds the
\* alias to Owners; so the number of teams and owners is the number of
\* distinct such lines.
C17_OwnersFileParsing ==
    ~reviewerGroup.isNil =>
        /\ ParsedAsDeclared
        /\ Cardinality(reviewerGroup.Teams) + Cardinality(reviewerGroup.Owners)
              = Cardinality(Declared \cap (TeamLines \cup OwnerLines))

\* C17, amended -- as above, but Owners is a set of aliases: the number of
\* teams is the number of distinct team lines, and the number of owners is
\* the number of distinct aliases named by the owner lines, a no-notify line
\* and a plain line of the same alias counting once.
C17_OwnersFileParsingByAlias ==
    ~reviewerGroup.isNil =>
        /\ ParsedAsDeclared
        /\ Cardinality(reviewerGroup.Teams) = Cardinality(Declared \cap TeamLines)
        /\ Cardinality(reviewerGroup.Owners)
              = Cardinality({OwnerNamed(e) : e \in Declared \cap OwnerLines})
        /\ Cardinality(reviewerGroup.Owners)
              <= Cardinality(Declared \cap OwnerLines)

\* a team line, a no-notify line and a comment line have been parsed
C17_Witness ==
    /\ TestOwners = <<PrefixGroup \o strCore, PrefixNoNotify \o strBob,
                      PrefixComment \o strBob>>
    /\ reviewerGroup = Group({strBob}, {strCore})

-----------------------------------------------------------------------------
\* the instances that added a reviewer to pull request p in their run
Assigners(p) ==
    {i \in Instances :
        \E k \in Calls(i, p, {"CreatePullRequestReviewer"}) :
            trace[i][k].res = "ok"}

\* C20 -- No duplicate balancing under concurrency: two orchestrator
\* instances work on the same pull request, their calls interleaved in every
\* way, each pop atomic, no call failing: the pull request never holds two
\* comments with the bot signature and never holds reviewers added by two
\* balancing attempts.
C20_NoDuplicateBalancing ==
    faults = 0 =>
        \A p \in PRs :
            /\ Cardinality(SignedComments(p)) <= 1
            /\ Cardinality(Assigners(p)) <= 1

=============================================================================
